---- MODULE Spec2Model ----
(***************************************************************************)
(* Model of aws-lex-meta/bot.py: the Lex code hook of the deployment bot.  *)
(* Python values are tagged records: None, str, dict and list never        *)
(* compare equal to one another, as in Python.  A call either returns a    *)
(* value or raises an exception; both are values of kind "return"/"raise". *)
(***************************************************************************)
EXTENDS Integers, Sequences, FiniteSets, TLC

VARIABLES
    event,        \* the request of the last call (intent_request / event)
    entry,        \* the function the last call entered
    outcome,      \* what the last call returned or raised
    TZ,           \* os.environ['TZ'], process-wide
    zone,         \* the C library's time zone, as last applied by time.tzset()
    options,      \* the options argument of the last build_response_card call
    card,         \* the card the last build_response_card call returned
    phase,        \* the platform's view of the running conversation
    nconv,        \* conversations the platform has started
    invocations   \* concurrent lambda_handler invocations: position and locals

vars == <<event, entry, outcome, TZ, zone, options, card, phase, nconv, invocations>>

----------------------------------------------------------------------------
(* Bounds *)

MaxOptions == 7        \* longest options list handed to build_response_card
MaxConversations == 2  \* conversations the platform starts
NumInvocations == 2    \* lambda_handler invocations in flight

----------------------------------------------------------------------------
(* Python values *)

None == [tag |-> "None"]
Str(s) == [tag |-> "str", s |-> s]
Dict(f) == [tag |-> "dict", items |-> f]
List(q) == [tag |-> "list", items |-> q]

Return(v) == [kind |-> "return", value |-> v]
Raise(type, message) == [kind |-> "raise", type |-> type, message |-> message]

\* str + x: concatenation when x is a str, TypeError otherwise.
str_add(a, b) ==
    IF b.tag = "str"
    THEN Return(Str(a.s \o b.s))
    ELSE Raise("TypeError", "can only concatenate str (not NoneType) to str")

\* d[key] on a dict modelled as a function.
getitem(d, key) ==
    IF key \in DOMAIN d THEN Return(d[key]) ELSE Raise("KeyError", key)

\* TypeError of a call that omits the one positional parameter of name.
missing_argument(name) ==
    Raise("TypeError", name \o "() missing 1 required positional argument")

----------------------------------------------------------------------------
(* Helpers to build responses *)

elicit_slot(session_attributes, intent_name, slots, slot_to_elicit, message) ==
    [sessionAttributes |-> session_attributes,
     dialogAction |-> [type |-> "ElicitSlot",
                       intentName |-> intent_name,
                       slots |-> slots,
                       slotToElicit |-> slot_to_elicit,
                       message |-> message]]

confirm_intent(session_attributes, intent_name, slots, message) ==
    [sessionAttributes |-> session_attributes,
     dialogAction |-> [type |-> "ConfirmIntent",
                       intentName |-> intent_name,
                       slots |-> slots,
                       message |-> message]]

close(session_attributes, fulfillment_state, message) ==
    [sessionAttributes |-> session_attributes,
     dialogAction |-> [type |-> "Close",
                       fulfillmentState |-> fulfillment_state,
                       message |-> message]]

delegate(session_attributes, slots) ==
    [sessionAttributes |-> session_attributes,
     dialogAction |-> [type |-> "Delegate", slots |-> slots]]

PlainText(content) == [contentType |-> "PlainText", content |-> content]

Min(a, b) == IF a < b THEN a ELSE b

ButtonCap == 5

\* Variant: "if options:" in place of "if options is not None:".
card_buttons_truthy(opts) ==
    IF opts # None /\ Len(opts.items) > 0
    THEN List(SubSeq(opts.items, 1, Min(ButtonCap, Len(opts.items))))
    ELSE None

\* Variant: range(len(options)) in place of range(min(5, len(options))).
card_buttons_uncapped(opts) ==
    IF opts # None THEN List(opts.items) ELSE None

\* buttons of build_response_card: None, or the first min(5, len) options.
card_buttons(opts) ==
    IF opts # None
    THEN List(SubSeq(opts.items, 1, Min(ButtonCap, Len(opts.items))))
    ELSE None

build_response_card(title, subtitle, opts) ==
    [contentType |-> "application/vnd.amazonaws.card.generic",
     version |-> 1,
     genericAttachments |-> <<[title |-> title,
                               subTitle |-> subtitle,
                               buttons |-> card_buttons(opts)]>>]

----------------------------------------------------------------------------
(* Intent handlers *)

\* Variant: the request's sessionAttributes passed on without the None test.
output_session_attributes_unguarded(intent_request) ==
    intent_request.sessionAttributes

\* intent_request['sessionAttributes'] if it is not None else {}
output_session_attributes(intent_request) ==
    IF intent_request.sessionAttributes # None
    THEN intent_request.sessionAttributes
    ELSE Dict(<<>>)

deploy_prod_intent(intent_request) ==
    LET slots == intent_request.currentIntent.slots
        got == getitem(slots, "itsmnumber")
    IN  IF got.kind = "raise" THEN got
        ELSE LET itsm_number == got.value
                 logged == str_add(Str("itsm_number"), itsm_number)
             IN  IF logged.kind = "raise" THEN logged
                 ELSE IF itsm_number = None
                 THEN Return(elicit_slot(
                          output_session_attributes(intent_request),
                          "Deploytoprodintent",
                          slots,
                          "itsmnumber",
                          PlainText("Please provide a valid ITSM Number")))
                 ELSE Return(close(
                          output_session_attributes(intent_request),
                          "Fulfilled",
                          PlainText("Your deployment is scheduled")))

\* deploy_prod_intent called with the positional arguments args.
call_deploy_prod_intent(args) ==
    IF Len(args) = 1
    THEN deploy_prod_intent(args[1])
    ELSE missing_argument("deploy_prod_intent")

\* Variant: the elicitation starts from a fresh slot map for the prod intent.
deploy_intent_fresh_slots(intent_request) ==
    LET slots == intent_request.currentIntent.slots
        got == getitem(slots, "environment")
    IN  IF got.kind = "raise" THEN got
        ELSE IF got.value = Str("prod")
             THEN Return(elicit_slot(
                      output_session_attributes(intent_request),
                      "Deploytoprodintent",
                      [itsmnumber |-> None],
                      "itsmnumber",
                      PlainText("Please provide valid ITSM number")))
             ELSE Return(close(
                      output_session_attributes(intent_request),
                      "Fulfilled",
                      PlainText("Your deployment is scheduled")))

\* Variant: staging asks for a change ticket too.
deploy_intent_staging_gated(intent_request) ==
    LET slots == intent_request.currentIntent.slots
        got == getitem(slots, "environment")
    IN  IF got.kind = "raise" THEN got
        ELSE IF got.value \in {Str("prod"), Str("staging")}
             THEN Return(elicit_slot(
                      output_session_attributes(intent_request),
                      "Deploytoprodintent",
                      slots,
                      "itsmnumber",
                      PlainText("Please provide valid ITSM number")))
             ELSE Return(close(
                      output_session_attributes(intent_request),
                      "Fulfilled",
                      PlainText("Your deployment is scheduled")))

deploy_intent(intent_request) ==
    LET slots == intent_request.currentIntent.slots
        got == getitem(slots, "environment")
    IN  IF got.kind = "raise" THEN got
        ELSE LET env_name == got.value
             IN  IF env_name = Str("prod")
                 THEN Return(elicit_slot(
                          output_session_attributes(intent_request),
                          "Deploytoprodintent",
                          slots,
                          "itsmnumber",
                          PlainText("Please provide valid ITSM number")))
                 ELSE Return(close(
                          output_session_attributes(intent_request),
                          "Fulfilled",
                          PlainText("Your deployment is scheduled")))

\* deploy_intent called with the positional arguments args.
call_deploy_intent(args) ==
    IF Len(args) = 1
    THEN deploy_intent(args[1])
    ELSE missing_argument("deploy_intent")

----------------------------------------------------------------------------
(* Dispatcher and entry point *)

\* Variant: every name that is not the prod intent goes to deploy_intent.
dispatch_on_fallthrough(intent_name, intent_request) ==
    IF intent_name = "Deploytoprodintent"
    THEN call_deploy_prod_intent(<<>>)
    ELSE call_deploy_intent(<<intent_request>>)

\* The routing of dispatch once intent_name has been read from the request.
dispatch_on(intent_name, intent_request) ==
    IF intent_name = "DeploymentIntent"
    THEN call_deploy_intent(<<intent_request>>)
    ELSE IF intent_name = "Deploytoprodintent"
    THEN call_deploy_prod_intent(<<>>)
    ELSE Raise("Exception", "Intent with name " \o intent_name \o " not supported")

dispatch(intent_request) ==
    dispatch_on(intent_request.currentIntent.name, intent_request)

DefaultTZ == "America/New_York"

lambda_handler(ev) == dispatch(ev)

----------------------------------------------------------------------------
(* Requests the platform can send *)

IntentNames == {"DeploymentIntent", "Deploytoprodintent", "CancelIntent", "deploymentintent"}
EnvValues == {None, Str("prod"), Str("dev"), Str("staging")}
ItsmValues == {None, Str("INC12345"), Str("")}
SlotNames == {"environment", "itsmnumber"}

SlotValues(name) == IF name = "environment" THEN EnvValues ELSE ItsmValues

\* Slot maps: every slot the map names has a value or is None (unfilled).
SlotMaps ==
    UNION { { f \in [D -> EnvValues \cup ItsmValues] :
                \A k \in D : f[k] \in SlotValues(k) } :
            D \in (SUBSET SlotNames) \ {{}} }

SessionAttributes ==
    {None, Dict(<<>>), Dict([user |-> "alice"]), Dict([user |-> "alice", app |-> "web"])}

UserIds == {"u1", "u2"}

Request(name, slots, attrs, user) ==
    [bot |-> [name |-> "DeployBot"],
     userId |-> user,
     currentIntent |-> [name |-> name, slots |-> slots],
     sessionAttributes |-> attrs]

Events ==
    { Request(n, s, a, "u1") : n \in IntentNames, s \in SlotMaps, a \in SessionAttributes }

NoEvent == [tag |-> "none"]
NoOutcome == [kind |-> "none"]
InitialTZ == {"unset", ":UTC"}

Idle == [pc |-> "idle", event |-> NoEvent, intent_name |-> "", outcome |-> NoOutcome]
Inv == 1..NumInvocations

Init ==
    /\ event = NoEvent
    /\ entry = "none"
    /\ outcome = NoOutcome
    /\ TZ \in InitialTZ
    /\ zone = "UTC"
    /\ options = None
    /\ card = None
    /\ phase = "idle"
    /\ nconv = 0
    /\ invocations = [i \in Inv |-> Idle]

----------------------------------------------------------------------------
(* One call at a time: the entry point and the handlers *)

\* lambda_handler(event, context): set TZ, tzset(), dispatch.
LambdaHandler ==
    \E ev \in Events :
        /\ event' = ev
        /\ entry' = "lambda_handler"
        /\ TZ' = DefaultTZ
        /\ zone' = TZ'
        /\ outcome' = lambda_handler(ev)
        /\ UNCHANGED <<options, card, phase, nconv, invocations>>

\* deploy_prod_intent(intent_request) called with a request.
DeployProdIntent ==
    \E ev \in Events :
        /\ event' = ev
        /\ entry' = "deploy_prod_intent"
        /\ outcome' = call_deploy_prod_intent(<<ev>>)
        /\ UNCHANGED <<TZ, zone, options, card, phase, nconv, invocations>>

\* deploy_intent(intent_request) called with a request.
DeployIntent ==
    \E ev \in Events :
        /\ event' = ev
        /\ entry' = "deploy_intent"
        /\ outcome' = call_deploy_intent(<<ev>>)
        /\ UNCHANGED <<TZ, zone, options, card, phase, nconv, invocations>>

Next == LambdaHandler \/ DeployProdIntent \/ DeployIntent

Spec == Init /\ [][Next]_vars

----------------------------------------------------------------------------
(* Response cards *)

Buttons == {"yes", "no"}

OptionInputs ==
    {None} \cup { List(q) : q \in UNION { [1..n -> Buttons] : n \in 0..MaxOptions } }

\* build_response_card(title, subtitle, options) called by a client.
BuildResponseCard ==
    \E opts \in OptionInputs :
        /\ options' = opts
        /\ card' = build_response_card("Deploy", "Choose", opts)
        /\ UNCHANGED <<event, entry, outcome, TZ, zone, phase, nconv, invocations>>

NextCard == BuildResponseCard

SpecCard == Init /\ [][NextCard]_vars

----------------------------------------------------------------------------
(* The two-step dialog: the platform feeds each ElicitSlot back as a request *)

Elicits(out) ==
    /\ out.kind = "return"
    /\ out.value.dialogAction.type = "ElicitSlot"

\* One turn: the platform invokes lambda_handler with ev and reads the result.
Turn(ev) ==
    /\ event' = ev
    /\ entry' = "lambda_handler"
    /\ TZ' = DefaultTZ
    /\ zone' = TZ'
    /\ outcome' = lambda_handler(ev)
    /\ phase' = IF Elicits(outcome') THEN "eliciting" ELSE "ended"

\* A conversation starts with a DeploymentIntent request.
StartConversation ==
    /\ phase # "eliciting"
    /\ nconv < MaxConversations
    /\ \E s \in SlotMaps, a \in SessionAttributes, u \in UserIds :
          /\ "environment" \in DOMAIN s
          /\ Turn(Request("DeploymentIntent", s, a, u))
    /\ nconv' = nconv + 1
    /\ UNCHANGED <<options, card, invocations>>

\* The user answers the elicited slot (None when no value was understood);
\* the platform sends the elicited intent with the answer in that slot.
UserAnswers ==
    /\ phase = "eliciting"
    /\ \E answer \in ItsmValues :
          LET da == outcome.value.dialogAction
              slots == [k \in DOMAIN da.slots \cup {da.slotToElicit} |->
                           IF k = da.slotToElicit THEN answer ELSE da.slots[k]]
          IN  Turn(Request(da.intentName, slots,
                           outcome.value.sessionAttributes, event.userId))
    /\ UNCHANGED <<nconv, options, card, invocations>>

NextDialog == StartConversation \/ UserAnswers

SpecDialog == Init /\ [][NextDialog]_vars

----------------------------------------------------------------------------
(* Concurrent invocations of lambda_handler, one statement at a time *)

ConcEvents ==
    { Request(n, [environment |-> Str("prod"), itsmnumber |-> v], a, "u1") :
        n \in IntentNames,
        v \in {None, Str("INC12345")},
        a \in {None, Dict([user |-> "alice"])} }

\* The platform invokes lambda_handler(event, context).
Receive(i) ==
    /\ invocations[i].pc = "idle"
    /\ \E ev \in ConcEvents :
          invocations' = [invocations EXCEPT ![i].pc = "setenv", ![i].event = ev]
    /\ UNCHANGED <<event, entry, outcome, TZ, zone, options, card, phase, nconv>>

\* os.environ['TZ'] = 'America/New_York'
SetEnvTZ(i) ==
    /\ invocations[i].pc = "setenv"
    /\ TZ' = DefaultTZ
    /\ invocations' = [invocations EXCEPT ![i].pc = "tzset"]
    /\ UNCHANGED <<event, entry, outcome, zone, options, card, phase, nconv>>

\* time.tzset(): the C library re-reads TZ from the environment.
TzSet(i) ==
    /\ invocations[i].pc = "tzset"
    /\ zone' = IF TZ = "unset" THEN "UTC" ELSE TZ
    /\ invocations' = [invocations EXCEPT ![i].pc = "dispatch"]
    /\ UNCHANGED <<event, entry, outcome, TZ, options, card, phase, nconv>>

\* dispatch: intent_name = intent_request['currentIntent']['name']
ReadIntentName(i) ==
    /\ invocations[i].pc = "dispatch"
    /\ invocations' = [invocations EXCEPT
                          ![i].pc = "route",
                          ![i].intent_name = invocations[i].event.currentIntent.name]
    /\ UNCHANGED <<event, entry, outcome, TZ, zone, options, card, phase, nconv>>

\* Variant: the request is kept in a module-level global that every
\* invocation overwrites, and the handler runs on whatever it holds.
RouteToHandler_shared(i) ==
    /\ invocations[i].pc = "route"
    /\ \E j \in Inv :
          /\ invocations[j].pc # "idle"
          /\ invocations' = [invocations EXCEPT
                                ![i].pc = "done",
                                ![i].outcome = dispatch_on(invocations[i].intent_name,
                                                           invocations[j].event)]
    /\ UNCHANGED <<event, entry, outcome, TZ, zone, options, card, phase, nconv>>

\* dispatch: route to the handler, which returns or raises through lambda_handler.
RouteToHandler(i) ==
    /\ invocations[i].pc = "route"
    /\ invocations' = [invocations EXCEPT
                          ![i].pc = "done",
                          ![i].outcome = dispatch_on(invocations[i].intent_name,
                                                     invocations[i].event)]
    /\ UNCHANGED <<event, entry, outcome, TZ, zone, options, card, phase, nconv>>

NextConc ==
    \E i \in Inv :
        Receive(i) \/ SetEnvTZ(i) \/ TzSet(i) \/ ReadIntentName(i) \/ RouteToHandler(i)

SpecConc == Init /\ [][NextConc]_vars

----------------------------------------------------------------------------
(* Properties *)

ViaDispatch == entry = "lambda_handler"
IntentOf == event.currentIntent.name
HasSlot(k) == k \in DOMAIN event.currentIntent.slots
SlotOf(k) == event.currentIntent.slots[k]
Returned == outcome.kind = "return"
Action == outcome.value.dialogAction
ClosedFulfilled ==
    /\ Returned
    /\ Action.type = "Close"
    /\ Action.fulfillmentState = "Fulfilled"
CardButtons == card.genericAttachments[1].buttons

\* C1: a dispatched "Deploytoprodintent" request whose itsmnumber slot is a
\* string is answered with Close / Fulfilled; the invocation does not fail.
C1_DeployToProdFulfilled ==
    (/\ ViaDispatch
     /\ IntentOf = "Deploytoprodintent"
     /\ HasSlot("itsmnumber")
     /\ SlotOf("itsmnumber") # None)
    => ClosedFulfilled

\* C2: a "Deploytoprodintent" request whose itsmnumber slot is None is
\* answered with an ElicitSlot for itsmnumber carrying the validation message
\* "Please provide a valid ITSM Number"; it is not an error.
C2_NullItsmReElicited ==
    (/\ entry \in {"lambda_handler", "deploy_prod_intent"}
     /\ IntentOf = "Deploytoprodintent"
     /\ HasSlot("itsmnumber")
     /\ SlotOf("itsmnumber") = None)
    => (/\ Returned
        /\ Action.type = "ElicitSlot"
        /\ Action.slotToElicit = "itsmnumber"
        /\ Action.message.content = "Please provide a valid ITSM Number")

\* C3: a "DeploymentIntent" request with environment = "prod" is answered with
\* an ElicitSlot for itsmnumber whose slots are the request's slot map.
C3_ProdElicitsItsm ==
    (/\ entry \in {"lambda_handler", "deploy_intent"}
     /\ IntentOf = "DeploymentIntent"
     /\ HasSlot("environment")
     /\ SlotOf("environment") = Str("prod"))
    => (/\ Returned
        /\ Action.type = "ElicitSlot"
        /\ Action.slotToElicit = "itsmnumber"
        /\ Action.slots = event.currentIntent.slots)

C3_Witness ==
    /\ ViaDispatch
    /\ IntentOf = "DeploymentIntent"
    /\ DOMAIN event.currentIntent.slots = SlotNames
    /\ SlotOf("environment") = Str("prod")
    /\ SlotOf("itsmnumber") = Str("INC12345")
    /\ Returned
    /\ Action.type = "ElicitSlot"
    /\ Action.slots["itsmnumber"] = Str("INC12345")

\* C4: a "DeploymentIntent" request whose environment slot holds anything but
\* "prod" is answered with Close / Fulfilled.
C4_NonProdFulfilled ==
    (/\ entry \in {"lambda_handler", "deploy_intent"}
     /\ IntentOf = "DeploymentIntent"
     /\ HasSlot("environment")
     /\ SlotOf("environment") # Str("prod"))
    => ClosedFulfilled

C4_Witness ==
    /\ ViaDispatch
    /\ IntentOf = "DeploymentIntent"
    /\ HasSlot("environment")
    /\ SlotOf("environment") = Str("staging")
    /\ ClosedFulfilled

\* C5: every response carries sessionAttributes, equal to the request's
\* sessionAttributes when that is not None and to the empty mapping otherwise.
C5_SessionAttributesEchoed ==
    Returned =>
        /\ "sessionAttributes" \in DOMAIN outcome.value
        /\ event.sessionAttributes # None
              => outcome.value.sessionAttributes = event.sessionAttributes
        /\ event.sessionAttributes = None
              => outcome.value.sessionAttributes = [tag |-> "dict", items |-> <<>>]

C5_Witness ==
    /\ ViaDispatch
    /\ event.sessionAttributes = None
    /\ Returned
    /\ outcome.value.sessionAttributes = [tag |-> "dict", items |-> <<>>]

\* C6: dispatching an intent name other than "DeploymentIntent" and
\* "Deploytoprodintent" raises an exception naming the intent; no response
\* is returned.
C6_UnsupportedIntentRaises ==
    (/\ ViaDispatch
     /\ IntentOf \notin {"DeploymentIntent", "Deploytoprodintent"})
    => (/\ outcome.kind = "raise"
        /\ outcome.type = "Exception"
        /\ outcome.message = "Intent with name " \o IntentOf \o " not supported")

C6_Witness ==
    /\ ViaDispatch
    /\ IntentOf = "CancelIntent"
    /\ outcome.kind = "raise"
    /\ outcome.message = "Intent with name CancelIntent not supported"

\* C7 as stated: buttons is None both for options = None and for an empty
\* options list.
C7_NoOptionsNoButtons ==
    (card # None /\ (options = None \/ options = List(<<>>)))
    => CardButtons = None

\* C7 amended: buttons is None exactly when options is None; an empty
\* options list gives an empty buttons list.
C7_NoneOnlyForNone ==
    card # None =>
        /\ (CardButtons = None) <=> (options = None)
        /\ options = List(<<>>) => CardButtons = List(<<>>)

C7_Witness ==
    /\ card # None
    /\ options = List(<<>>)
    /\ CardButtons = List(<<>>)

\* C8: for an options list of length n the buttons are the first min(5, n)
\* options, in input order.
C8_FirstFiveInOrder ==
    (card # None /\ options # None) =>
        /\ CardButtons # None
        /\ Len(CardButtons.items) =
              (IF Len(options.items) <= 5 THEN Len(options.items) ELSE 5)
        /\ \A k \in 1..Len(CardButtons.items) :
              CardButtons.items[k] = options.items[k]

C8_Witness ==
    /\ card # None
    /\ options # None
    /\ Len(options.items) = 7
    /\ options.items[1] # options.items[2]
    /\ Len(CardButtons.items) = 5

\* C9: a conversation of the two-step dialog ends only in Close / Fulfilled
\* or in the unsupported-intent failure.
C9_EndsFulfilledOrUnsupported ==
    phase = "ended" =>
        \/ ClosedFulfilled
        \/ /\ outcome.kind = "raise"
           /\ outcome.type = "Exception"

\* C10: under every interleaving, a finished invocation has the outcome
\* lambda_handler gives for its own request, and once any invocation has
\* written TZ (applied it with tzset) the value is "America/New_York".
C10_InvocationsIndependent ==
    /\ \A i \in Inv :
          invocations[i].pc = "done"
             => invocations[i].outcome = lambda_handler(invocations[i].event)
    /\ \A i \in Inv :
          invocations[i].pc \notin {"idle", "setenv"} => TZ = "America/New_York"
    /\ \A i \in Inv :
          invocations[i].pc \in {"dispatch", "route", "done"}
             => zone = "America/New_York"

C10_Witness ==
    /\ invocations[1].pc = "done"
    /\ invocations[2].pc = "done"
    /\ invocations[1].outcome.kind = "return"
    /\ invocations[2].outcome.kind = "raise"
    /\ invocations[1].event.sessionAttributes # invocations[2].event.sessionAttributes

====
